---- MODULE Spec2Model ----
(***************************************************************************)
(* Model of the rule function-component-definition of                      *)
(* packages/plugin-react (src/rules/function-component-definition.js).     *)
(*                                                                         *)
(* The host engine calls create once per file with the rule options and    *)
(* then calls one visitor callback per function node.  A callback runs     *)
(* validate, which either returns silently or calls report exactly as the  *)
(* code does; the report carries an optional fix.  ApplyFix and Reanalyze  *)
(* model the host applying an offered fix and linting the result again.    *)
(***************************************************************************)
EXTENDS Integers, Sequences, FiniteSets, TLC

\* ---------------------------------------------------------------- bounds
MaxListLen == 2        \* longest option array enumerated
MaxTypeParams == 2     \* most type parameters on a function node
MaxLongListLen == 3    \* longest option array of the long-list configurations

\* ------------------------------------------------------------ JS values
Undefined == "undefined"

FunctionDeclarationKey == "function-declaration"
ArrowFunctionKey == "arrow-function"
FunctionExpressionKey == "function-expression"

\* enum of configShape.namedComponents
NamedEnum == {FunctionDeclarationKey, ArrowFunctionKey, FunctionExpressionKey}

\* enum of configShape.unnamedComponents
UnnamedEnum == {ArrowFunctionKey, FunctionExpressionKey}

\* JS sequences of pairwise distinct elements of S, at most n long
RECURSIVE ArraysOf(_, _)
ArraysOf(S, n) ==
  IF n = 0 THEN {<<>>}
  ELSE LET shorter == ArraysOf(S, n - 1)
       IN shorter \cup
          {Append(a, x) : <<a, x>> \in
             {p \in shorter \X S : \A i \in 1..Len(p[1]) : p[1][i] /= p[2]}}

\* a membership test that looks at the first entry only
IncludesFirstOnly(list, x) == Len(list) > 0 /\ list[1] = x

Includes(list, x) == \E i \in 1..Len(list) : list[i] = x

\* a target taken from the end of the list
FirstFromEnd(list) == IF Len(list) = 0 THEN Undefined ELSE list[Len(list)]

\* list[0] of JavaScript: undefined on an empty array
First(list) == IF Len(list) = 0 THEN Undefined ELSE list[1]

\* An option value as the schema accepts it: absent, one string of the
\* enum, or an array of strings of the enum.
UndefinedValue == [kind |-> "undefined", str |-> Undefined, arr |-> <<>>]
StringValue(s) == [kind |-> "string", str |-> s, arr |-> <<>>]
ArrayValue(a) == [kind |-> "array", str |-> Undefined, arr |-> a]

OptionValues(enum) ==
  {UndefinedValue} \cup {StringValue(s) : s \in enum}
                   \cup {ArrayValue(a) : a \in ArraysOf(enum, MaxListLen)}

\* the two properties of configShape
ConfigShape ==
  [namedComponents : OptionValues(NamedEnum),
   unnamedComponents : OptionValues(UnnamedEnum)]

\* a fallback that ignores the default it is given
OrDefaultFunctionDeclaration(v, d) ==
  IF v.kind = "undefined" THEN StringValue(FunctionDeclarationKey) ELSE v

\* v || d : an absent option falls back to the default string; an array,
\* even an empty one, is truthy
OrDefault(v, d) == IF v.kind = "undefined" THEN StringValue(d) ELSE v

\* a concatenation that spreads a string into nothing
ConcatOfArraysOnly(v) == IF v.kind = "string" THEN <<>> ELSE v.arr


\* [].concat(v) : a string becomes a one-element array, an array is copied
Concat(v) == IF v.kind = "string" THEN <<v.str>> ELSE v.arr

\* context.options[0].defaultExport : absent, or an object of configShape
DefaultExportValues ==
  {[present |-> FALSE, namedComponents |-> UndefinedValue,
    unnamedComponents |-> UndefinedValue]}
  \cup {[present |-> TRUE, namedComponents |-> c.namedComponents,
         unnamedComponents |-> c.unnamedComponents] : c \in ConfigShape}

\* context.options[0] as the schema accepts it : absent, or an object
NoOptions ==
  [present |-> FALSE, namedComponents |-> UndefinedValue,
   unnamedComponents |-> UndefinedValue,
   defaultExport |-> [present |-> FALSE, namedComponents |-> UndefinedValue,
                      unnamedComponents |-> UndefinedValue]]

OptionsValues ==
  {NoOptions}
  \cup {[present |-> TRUE, namedComponents |-> c.namedComponents,
         unnamedComponents |-> c.unnamedComponents, defaultExport |-> d]
        : <<c, d>> \in ConfigShape \X DefaultExportValues}

\* ---------------------------------------------------- option schema
\* What a user may write for one option before the host has validated
\* it: nothing, a string of the enum or another string, a value that is
\* neither string nor array, an array of strings of the enum, or an
\* array holding another string.
OtherString == "class-component"
NumberValue == [kind |-> "number", str |-> Undefined, arr |-> <<>>]

RawOptionValues ==
  {UndefinedValue, NumberValue}
  \cup {StringValue(x) : x \in NamedEnum \cup {OtherString}}
  \cup {ArrayValue(a) : a \in ArraysOf(NamedEnum, MaxListLen)}
  \cup {ArrayValue(<<OtherString>>)}

RawConfigShape ==
  [namedComponents : RawOptionValues, unnamedComponents : RawOptionValues]

RawOptions ==
  {NoOptions}
  \cup {[present |-> TRUE, namedComponents |-> c.namedComponents,
         unnamedComponents |-> c.unnamedComponents,
         defaultExport |-> [present |-> FALSE,
                            namedComponents |-> UndefinedValue,
                            unnamedComponents |-> UndefinedValue]]
        : c \in RawConfigShape}
  \cup {[present |-> TRUE, namedComponents |-> q[1].namedComponents,
         unnamedComponents |-> q[1].unnamedComponents,
         defaultExport |-> [present |-> TRUE,
                            namedComponents |-> q[2].namedComponents,
                            unnamedComponents |-> q[2].unnamedComponents]]
        : q \in RawConfigShape \X RawConfigShape}

\* { enum: [...] }
MatchesEnum(v, enum) == v.kind = "string" /\ v.str \in enum

\* { type: 'array', items: { type: 'string', enum: [...] } }
MatchesArray(v, enum) ==
  v.kind = "array" /\ \A i \in DOMAIN v.arr : v.arr[i] \in enum

\* oneOf : exactly one of the two subschemas matches
OneOf(v, enum) == MatchesEnum(v, enum) /= MatchesArray(v, enum)

\* a property of an object schema constrains the value only when present
PropertyValid(v, enum) == v.kind = "undefined" \/ OneOf(v, enum)

\* a shape that takes the enum of namedComponents for both options
ConfigShapeValidOneEnum(c) ==
  /\ PropertyValid(c.namedComponents, NamedEnum)
  /\ PropertyValid(c.unnamedComponents, NamedEnum)

\* the properties of configShape
ConfigShapeValid(c) ==
  /\ PropertyValid(c.namedComponents, NamedEnum)
  /\ PropertyValid(c.unnamedComponents, UnnamedEnum)

\* schema[0] against context.options[0]
SchemaValid(o) ==
  o.present =>
    /\ ConfigShapeValid(o)
    /\ o.defaultExport.present => ConfigShapeValid(o.defaultExport)

\* ------------------------------------------------------------ templates
\* the named templates with two keys exchanged
NAMED_FUNCTION_TEMPLATES_Swapped ==
  [k \in NamedEnum |->
     CASE k = ArrowFunctionKey ->
            "function {name}{typeParams}({params}){returnType} {body}"
       [] k = FunctionDeclarationKey ->
            "var {name}{typeAnnotation} = {typeParams}({params}){returnType} => {body}"
       [] k = FunctionExpressionKey ->
            "var {name}{typeAnnotation} = function{typeParams}({params}){returnType} {body}"]

NAMED_FUNCTION_TEMPLATES ==
  [k \in NamedEnum |->
     CASE k = FunctionDeclarationKey ->
            "function {name}{typeParams}({params}){returnType} {body}"
       [] k = ArrowFunctionKey ->
            "var {name}{typeAnnotation} = {typeParams}({params}){returnType} => {body}"
       [] k = FunctionExpressionKey ->
            "var {name}{typeAnnotation} = function{typeParams}({params}){returnType} {body}"]

\* unnamed functions served from the table of the named ones
UNNAMED_FUNCTION_TEMPLATES_OfNamed == NAMED_FUNCTION_TEMPLATES


UNNAMED_FUNCTION_TEMPLATES ==
  [k \in UnnamedEnum |->
     CASE k = FunctionExpressionKey ->
            "function{typeParams}({params}){returnType} {body}"
       [] k = ArrowFunctionKey ->
            "{typeParams}({params}){returnType} => {body}"]

messages ==
  [k \in NamedEnum |->
     CASE k = FunctionDeclarationKey ->
            "Function component is not a function declaration"
       [] k = FunctionExpressionKey ->
            "Function component is not a function expression"
       [] k = ArrowFunctionKey ->
            "Function component is not an arrow function"]

\* table[key] of JavaScript : undefined when the key is not a property
Lookup(table, key) ==
  IF key \in DOMAIN table THEN table[key] ELSE Undefined

\* ---------------------------------------------------------------- nodes
Null == "null"

NodeTypes == {"FunctionDeclaration", "ArrowFunctionExpression", "FunctionExpression"}

\* node.typeParameters : length is params.length (0 for an absent
\* node.typeParameters), firstConstraint is whether params[0].constraint
\* is set
TypeParamValues(n) ==
  {[length |-> 0, firstConstraint |-> FALSE]}
  \cup {[length |-> k, firstConstraint |-> c] : <<k, c>> \in (1..n) \X BOOLEAN}

NoTypeParams == [length |-> 0, firstConstraint |-> FALSE]

\* text of a type annotation on the binding identifier
AnnotationText == ": FC"

\* The function nodes the parser can produce: a function declaration is a
\* statement or the declaration of an export default (where it may lack an
\* id); an arrow function or function expression is an expression, here
\* the init of a declarator, the declaration of an export default, the
\* value of a property or an argument of a call.
NodeShapes ==
  {[type |-> "FunctionDeclaration", parentType |-> p, hasId |-> TRUE,
    bindingTypeAnnotation |-> Null]
     : p \in {"Program", "ExportDefaultDeclaration"}}
  \cup
  {[type |-> "FunctionDeclaration", parentType |-> "ExportDefaultDeclaration",
    hasId |-> FALSE, bindingTypeAnnotation |-> Null]}
  \cup
  {[type |-> q[1], parentType |-> "VariableDeclarator", hasId |-> q[2],
    bindingTypeAnnotation |-> q[3]]
     : q \in {r \in (NodeTypes \ {"FunctionDeclaration"}) \X BOOLEAN
                      \X {Null, AnnotationText}
                : r[1] = "ArrowFunctionExpression" => ~r[2]}}
  \cup
  {[type |-> q[1], parentType |-> q[3], hasId |-> q[2],
    bindingTypeAnnotation |-> Null]
     : q \in {r \in (NodeTypes \ {"FunctionDeclaration"}) \X BOOLEAN
                      \X {"ExportDefaultDeclaration", "Property", "CallExpression"}
                : r[1] = "ArrowFunctionExpression" => ~r[2]}}

\* isComponent is the answer of components.get(node)
Nodes ==
  {[type |-> q[1].type, parentType |-> q[1].parentType, hasId |-> q[1].hasId,
    bindingTypeAnnotation |-> q[1].bindingTypeAnnotation,
    typeParams |-> q[2], isComponent |-> q[3]]
     : q \in NodeShapes \X TypeParamValues(MaxTypeParams) \X BOOLEAN}

NoNode ==
  [type |-> Undefined, parentType |-> Undefined, hasId |-> FALSE,
   bindingTypeAnnotation |-> Null, typeParams |-> NoTypeParams,
   isComponent |-> FALSE]

\* -------------------------------------------------------------- helpers
\* truthiness of a string-or-null-or-undefined value
False == "false"
Truthy(v) == v \notin {Undefined, Null, False, ""}

\* a test that forgets to require a single type parameter
hasUnconstrainedFirstTypeParam(node) ==
  IF node.typeParams.length > 0
  THEN ~node.typeParams.firstConstraint
  ELSE FALSE

hasOneUnconstrainedTypeParam(node) ==
  IF node.typeParams.length > 0
  THEN node.typeParams.length = 1 /\ ~node.typeParams.firstConstraint
  ELSE FALSE

\* a test that also counts a function under a default export
hasNameOrExported(node) ==
  \/ node.type = "FunctionDeclaration"
  \/ node.parentType \in {"VariableDeclarator", "ExportDefaultDeclaration"}


hasName(node) ==
  node.type = "FunctionDeclaration" \/ node.parentType = "VariableDeclarator"

\* an extraction that handles function expressions only
getTypeAnnotationOfFunctionExpression(node) ==
  IF ~hasName(node) \/ node.type = "FunctionDeclaration" THEN Undefined
  ELSE IF node.type = "FunctionExpression"
       THEN node.bindingTypeAnnotation
       ELSE Undefined

getTypeAnnotation(node) ==
  IF ~hasName(node) \/ node.type = "FunctionDeclaration" THEN Undefined
  ELSE IF node.type \in {"ArrowFunctionExpression", "FunctionExpression"}
       THEN node.bindingTypeAnnotation
       ELSE Undefined

\* a test that forgets the type of the node
isDefaultExportOfAnyType(node) ==
  /\ node.parentType /= Undefined
  /\ node.parentType = "ExportDefaultDeclaration"

isDefaultExport(node) ==
  /\ node.type = "FunctionDeclaration"
  /\ node.parentType /= Undefined
  /\ node.parentType = "ExportDefaultDeclaration"

\* a test that looks at the node where it should look at its parent
isUnfixableBecauseNodeIsExport(node) ==
  node.type = "ExportDefaultDeclaration"

isUnfixableBecauseOfExport(node) == isDefaultExport(node)

\* a test that takes the binding for the identifier of the function
isFunctionExpressionWithBinding(node) ==
  node.type = "FunctionExpression" /\ node.parentType = "VariableDeclarator"

isFunctionExpressionWithName(node) ==
  node.type = "FunctionExpression" /\ node.hasId

\* ---------------------------------------------------------- source text
\* String.prototype.indexOf, counted from 1; 0 when p does not occur
IndexOf(s, p) ==
  LET at == {i \in 1..(Len(s) - Len(p) + 1) : SubSeq(s, i, i + Len(p) - 1) = p}
  IN IF at = {} THEN 0 ELSE CHOOSE i \in at : \A j \in at : i <= j

\* s.replace(p, r) with strings p and r : the first occurrence only. The
\* fragments of the sources below hold no dollar sign, so r is inserted
\* as it stands.
ReplaceFirst(s, p, r) ==
  LET i == IndexOf(s, p)
  IN IF i = 0 THEN s
     ELSE SubSeq(s, 1, i - 1) \o r \o SubSeq(s, i + Len(p), Len(s))

\* a slice that starts one character early
SliceFromBefore(source, a, b) == SubSeq(source, a, b)


\* source.slice(a, b), offsets counted from 0
Slice(source, a, b) == SubSeq(source, a + 1, b)

\* Object.keys(parts) : the keys in the order the object literal gives
PartKeys ==
  <<"typeAnnotation", "typeParams", "params", "returnType", "body", "name">>

\* parts[key] || ''
OrEmpty(v) == IF Truthy(v) THEN v ELSE ""

RECURSIVE Reduce(_, _, _)
Reduce(acc, keys, parts) ==
  IF keys = <<>> THEN acc
  ELSE Reduce(ReplaceFirst(acc, "{" \o Head(keys) \o "}", OrEmpty(parts[Head(keys)])),
              Tail(keys), parts)

buildFunction(template, parts) == Reduce(template, PartKeys, parts)

\* an optional child node : its range when present
NoProp == [present |-> FALSE, range |-> <<0, 0>>]
Prop(present, a, b) == IF present THEN [present |-> TRUE, range |-> <<a, b>>] ELSE NoProp

getNodeText(prop, source) ==
  IF ~prop.present THEN Null ELSE Slice(source, prop.range[1], prop.range[2])

getName(node) ==
  IF node.type = "FunctionDeclaration" THEN node.name
  ELSE IF node.type \in {"ArrowFunctionExpression", "FunctionExpression"}
       THEN IF hasName(node) THEN node.name ELSE False
       ELSE Undefined

\* an extraction that stops at the end of the first parameter
getParamsOfFirst(node, source) ==
  IF Len(node.params) = 0 THEN Null
  ELSE Slice(source, node.params[1][1], node.params[1][2])


getParams(node, source) ==
  IF Len(node.params) = 0 THEN Null
  ELSE Slice(source, node.params[1][1], node.params[Len(node.params)][2])

\* a wrapping on one line
getBodyOnOneLine(node, source) ==
  LET range == node.body.range
  IN IF node.body.type /= "BlockStatement"
     THEN "{ return " \o Slice(source, range[1], range[2]) \o " }"
     ELSE Slice(source, range[1], range[2])

getBody(node, source) ==
  LET range == node.body.range
  IN IF node.body.type /= "BlockStatement"
     THEN "{" \o "\n" \o "  return " \o Slice(source, range[1], range[2]) \o "\n" \o "}"
     ELSE Slice(source, range[1], range[2])

\* ----------------------------------------------------------- the fixer
NoFix ==
  [present |-> FALSE, range |-> Undefined, template |-> Undefined,
   typeAnnotation |-> Undefined]

\* a fixer whose annotation guard forgets the target type
getFixerAnnotationAnyTarget(node, fixerOptions) ==
  LET typeAnnotation == getTypeAnnotation(node)
  IN IF Truthy(typeAnnotation)
       THEN NoFix
     ELSE IF fixerOptions.type = ArrowFunctionKey
             /\ hasOneUnconstrainedTypeParam(node)
       THEN NoFix
     ELSE IF isUnfixableBecauseOfExport(node) THEN NoFix
     ELSE IF isFunctionExpressionWithName(node) THEN NoFix
     ELSE [present |-> TRUE, range |-> fixerOptions.range,
           template |-> fixerOptions.template,
           typeAnnotation |-> typeAnnotation]

\* getFixer(node, options) : no fix when a guard holds, else the closure
\* over the replacement range, the template and the extracted fragments
getFixer(node, fixerOptions) ==
  LET typeAnnotation == getTypeAnnotation(node)
  IN IF fixerOptions.type = FunctionDeclarationKey /\ Truthy(typeAnnotation)
       THEN NoFix
     ELSE IF fixerOptions.type = ArrowFunctionKey
             /\ hasOneUnconstrainedTypeParam(node)
       THEN NoFix
     ELSE IF isUnfixableBecauseOfExport(node) THEN NoFix
     ELSE IF isFunctionExpressionWithName(node) THEN NoFix
     ELSE [present |-> TRUE, range |-> fixerOptions.range,
           template |-> fixerOptions.template,
           typeAnnotation |-> typeAnnotation]

\* a report that is dropped when the fix is suppressed
reportOnlyFixable(node, opts) ==
  IF getFixer(node, opts.fixerOptions).present
  THEN <<[message |-> Lookup(messages, opts.messageId),
          messageId |-> opts.messageId,
          fix |-> getFixer(node, opts.fixerOptions)]>>
  ELSE <<>>

\* report(node, options) : the calls of the reporter it makes, each with
\* its arguments (message text, message key, fix)
report(node, opts) ==
  <<[message |-> Lookup(messages, opts.messageId),
     messageId |-> opts.messageId,
     fix |-> getFixer(node, opts.fixerOptions)]>>

\* the four lists computed by create
Config(named, unnamed, deNamed, deUnnamed) ==
  [namedConfig |-> named, unnamedConfig |-> unnamed,
   defaultExportNamedConfig |-> deNamed,
   defaultExportUnnamedConfig |-> deUnnamed]

\* an applyConfig that replaces the declarator, not the declaration
applyConfigDeclaratorRange(node, functionType, appliedNameConfig, appliedUnnamedConfig, cfg) ==
  IF hasName(node) /\ ~Includes(appliedNameConfig, functionType)
  THEN report(node,
           [messageId |-> First(cfg.namedConfig),
            fixerOptions |->
              [type |-> First(cfg.namedConfig),
               template |-> Lookup(NAMED_FUNCTION_TEMPLATES, First(cfg.namedConfig)),
               range |-> IF node.type = "FunctionDeclaration"
                         THEN "node.range"
                         ELSE "node.parent.range"]])
  ELSE IF ~hasName(node) /\ ~Includes(appliedUnnamedConfig, functionType)
  THEN report(node,
           [messageId |-> First(cfg.unnamedConfig),
            fixerOptions |->
              [type |-> First(cfg.unnamedConfig),
               template |-> Lookup(UNNAMED_FUNCTION_TEMPLATES, First(cfg.unnamedConfig)),
               range |-> "node.range"]])
  ELSE <<>>

\* applyConfig of validate : the sequence of reporter calls it makes
applyConfig(node, functionType, appliedNameConfig, appliedUnnamedConfig, cfg) ==
  IF hasName(node) /\ ~Includes(appliedNameConfig, functionType)
  THEN report(node,
           [messageId |-> First(cfg.namedConfig),
            fixerOptions |->
              [type |-> First(cfg.namedConfig),
               template |-> Lookup(NAMED_FUNCTION_TEMPLATES, First(cfg.namedConfig)),
               range |-> IF node.type = "FunctionDeclaration"
                         THEN "node.range"
                         ELSE "node.parent.parent.range"]])
  ELSE IF ~hasName(node) /\ ~Includes(appliedUnnamedConfig, functionType)
  THEN report(node,
           [messageId |-> First(cfg.unnamedConfig),
            fixerOptions |->
              [type |-> First(cfg.unnamedConfig),
               template |-> Lookup(UNNAMED_FUNCTION_TEMPLATES, First(cfg.unnamedConfig)),
               range |-> "node.range"]])
  ELSE <<>>

\* a validate that does not skip the values of properties
validateProperties(node, functionType, cfg) ==
  IF ~node.isComponent THEN <<>>
  ELSE IF isDefaultExport(node)
       THEN applyConfig(node, functionType, cfg.defaultExportNamedConfig,
                        cfg.defaultExportUnnamedConfig, cfg)
       ELSE applyConfig(node, functionType, cfg.namedConfig,
                        cfg.unnamedConfig, cfg)

\* validate(node, functionType) : the sequence of reporter calls it makes
validate(node, functionType, cfg) ==
  IF ~node.isComponent THEN <<>>
  ELSE IF node.parentType /= Undefined /\ node.parentType = "Property" THEN <<>>
  ELSE IF isDefaultExport(node)
       THEN applyConfig(node, functionType, cfg.defaultExportNamedConfig,
                        cfg.defaultExportUnnamedConfig, cfg)
       ELSE applyConfig(node, functionType, cfg.namedConfig,
                        cfg.unnamedConfig, cfg)

\* the visitor map returned by create : node type to functionType
VisitorFunctionType(type) ==
  CASE type = "FunctionDeclaration" -> FunctionDeclarationKey
    [] type = "ArrowFunctionExpression" -> ArrowFunctionKey
    [] type = "FunctionExpression" -> FunctionExpressionKey

\* ---------------------------------------------------------------- state
VARIABLES
  pc,                          \* position of the host: load, create, idle,
                               \* visited, fixed, threw, reanalyzed
  configuration,               \* context.options[0] while create reads it
  namedConfig,                 \* the four lists of create
  unnamedConfig,
  defaultExportNamedConfig,
  defaultExportUnnamedConfig,
  node,                        \* the node of the current visitor callback
  reports,                     \* reporter calls made by the current callback
  edit,                        \* what the fix closure hands to the fixer:
                               \* the range and the replacement text
  output                       \* the text of the file after the edit

vars == <<pc, configuration, namedConfig, unnamedConfig,
          defaultExportNamedConfig, defaultExportUnnamedConfig, node, reports,
          edit, output>>

textVars == <<edit, output>>

NoEdit == [range |-> <<0, 0>>, text |-> ""]

cfgVars == <<configuration, namedConfig, unnamedConfig,
             defaultExportNamedConfig, defaultExportUnnamedConfig>>

CurrentConfig ==
  Config(namedConfig, unnamedConfig, defaultExportNamedConfig,
         defaultExportUnnamedConfig)

\* the rule module is loaded; create has not run
Init ==
  /\ pc = "load"
  /\ configuration = NoOptions
  /\ namedConfig = <<>>
  /\ unnamedConfig = <<>>
  /\ defaultExportNamedConfig = <<>>
  /\ defaultExportUnnamedConfig = <<>>
  /\ node = NoNode
  /\ reports = <<>>
  /\ edit = NoEdit
  /\ output = ""

\* the host validated the options against the schema and calls create
Configure ==
  /\ pc = "load"
  /\ configuration' \in RawOptions
  /\ SchemaValid(configuration')
  /\ pc' = "create"
  /\ UNCHANGED <<namedConfig, unnamedConfig, defaultExportNamedConfig,
                 defaultExportUnnamedConfig, node, reports>>
  /\ UNCHANGED textVars

\* the host found the options invalid : a configuration error, the rule
\* is never created
Reject ==
  /\ pc = "load"
  /\ configuration' \in RawOptions
  /\ ~SchemaValid(configuration')
  /\ pc' = "rejected"
  /\ UNCHANGED <<namedConfig, unnamedConfig, defaultExportNamedConfig,
                 defaultExportUnnamedConfig, node, reports>>
  /\ UNCHANGED textVars

\* the list create builds from one option and its default
ConfigList(value, default) == Concat(OrDefault(value, default))

\* create(context) : reads the options once and builds the four lists;
\* configuration is not read after that and is forgotten
Create ==
  /\ pc = "create"
  /\ LET defaultExportConfig == configuration.defaultExport
     IN /\ defaultExportNamedConfig' =
             ConfigList(defaultExportConfig.namedComponents, FunctionDeclarationKey)
        /\ defaultExportUnnamedConfig' =
             ConfigList(defaultExportConfig.unnamedComponents, FunctionExpressionKey)
        /\ namedConfig' =
             ConfigList(configuration.namedComponents, FunctionDeclarationKey)
        /\ unnamedConfig' =
             ConfigList(configuration.unnamedComponents, FunctionExpressionKey)
  /\ configuration' = NoOptions
  /\ pc' = "idle"
  /\ UNCHANGED <<node, reports>>
  /\ UNCHANGED textVars

\* a callback that takes the target off the front of the named list
VisitShifting(n) ==
  /\ node' = n
  /\ reports' = validate(n, VisitorFunctionType(n.type), CurrentConfig)
  /\ pc' = "visited"
  /\ namedConfig' = IF Len(namedConfig) > 0 THEN Tail(namedConfig) ELSE namedConfig
  /\ UNCHANGED <<configuration, unnamedConfig, defaultExportNamedConfig,
                 defaultExportUnnamedConfig>>
  /\ UNCHANGED textVars

\* one visitor callback on node n
Visit(n) ==
  /\ node' = n
  /\ reports' = validate(n, VisitorFunctionType(n.type), CurrentConfig)
  /\ pc' = "visited"
  /\ UNCHANGED cfgVars
  /\ UNCHANGED textVars

\* a callback that validates without asking whether the node is a
\* component
FunctionDeclarationUndetected ==
  /\ pc = "idle"
  /\ \E n \in Nodes :
       /\ n.type = "FunctionDeclaration"
       /\ node' = n
       /\ reports' = validate([n EXCEPT !.isComponent = TRUE],
                              VisitorFunctionType(n.type), CurrentConfig)
       /\ pc' = "visited"
       /\ UNCHANGED cfgVars
       /\ UNCHANGED textVars


FunctionDeclaration ==
  /\ pc = "idle"
  /\ \E n \in Nodes : n.type = "FunctionDeclaration" /\ Visit(n)

ArrowFunctionExpression ==
  /\ pc = "idle"
  /\ \E n \in Nodes : n.type = "ArrowFunctionExpression" /\ Visit(n)

FunctionExpression ==
  /\ pc = "idle"
  /\ \E n \in Nodes : n.type = "FunctionExpression" /\ Visit(n)

\* The function node a filled template parses to, by the text of the
\* template: its type, whether it has an id of its own, and whether it is
\* the init of a declarator of the variable the template declares.
TemplateShape(template) ==
  CASE template = "function {name}{typeParams}({params}){returnType} {body}" ->
         [type |-> "FunctionDeclaration", hasId |-> TRUE, declares |-> FALSE]
    [] template = "var {name}{typeAnnotation} = {typeParams}({params}){returnType} => {body}" ->
         [type |-> "ArrowFunctionExpression", hasId |-> FALSE, declares |-> TRUE]
    [] template = "var {name}{typeAnnotation} = function{typeParams}({params}){returnType} {body}" ->
         [type |-> "FunctionExpression", hasId |-> FALSE, declares |-> TRUE]
    [] template = "function{typeParams}({params}){returnType} {body}" ->
         [type |-> "FunctionExpression", hasId |-> FALSE, declares |-> FALSE]
    [] template = "{typeParams}({params}){returnType} => {body}" ->
         [type |-> "ArrowFunctionExpression", hasId |-> FALSE, declares |-> FALSE]

\* The node that stands in the file once the host has replaced fix.range
\* by the filled template.  A replacement of node.range sits under the
\* parent of the node; a replacement of node.parent.parent.range sits
\* where the variable declaration was, which is a statement position.
FixedNode(n, fix, detected) ==
  LET shape == TemplateShape(fix.template)
      container == IF fix.range = "node.range" THEN n.parentType ELSE "Program"
  IN [type |-> shape.type,
      parentType |-> IF shape.declares THEN "VariableDeclarator" ELSE container,
      hasId |-> shape.hasId,
      bindingTypeAnnotation |->
        IF shape.declares /\ Truthy(fix.typeAnnotation)
        THEN fix.typeAnnotation ELSE Null,
      typeParams |-> n.typeParams,
      isComponent |-> detected]

\* The host applies the fix of the report: the closure calls
\* buildFunction(options.template, ...), whose acc.replace throws a
\* TypeError on an undefined template.
ApplyFix ==
  /\ pc = "visited"
  /\ Len(reports) > 0
  /\ reports[1].fix.present
  /\ IF reports[1].fix.template = Undefined
     THEN /\ pc' = "threw"
          /\ UNCHANGED <<node, reports>>
     ELSE /\ pc' = "fixed"
          /\ \E detected \in BOOLEAN :
               node' = FixedNode(node, reports[1].fix, detected)
          /\ reports' = <<>>
  /\ UNCHANGED cfgVars
  /\ UNCHANGED textVars

\* the fixed file is linted again under the same configuration: the
\* visitor callback for the type of the new node runs
Reanalyze ==
  /\ pc = "fixed"
  /\ reports' = validate(node, VisitorFunctionType(node.type), CurrentConfig)
  /\ pc' = "reanalyzed"
  /\ UNCHANGED <<node>>
  /\ UNCHANGED cfgVars
  /\ UNCHANGED textVars

\* the callback has returned; the host goes on to the next node
Return ==
  /\ pc \in {"visited", "threw", "reanalyzed", "applied"}
  /\ pc' = "idle"
  /\ node' = NoNode
  /\ reports' = <<>>
  /\ edit' = NoEdit
  /\ output' = ""
  /\ UNCHANGED cfgVars

Next ==
  \/ Configure
  \/ Reject
  \/ Create
  \/ FunctionDeclaration
  \/ ArrowFunctionExpression
  \/ FunctionExpression
  \/ ApplyFix
  \/ Reanalyze
  \/ Return

Spec == Init /\ [][Next]_vars

\* ------------------------------------------------ long option arrays
\* Configurations that give the top-level options and
\* defaultExport.namedComponents as arrays of up to MaxLongListLen
\* entries; create and the visitor callbacks are those of Spec.
LongListOptions ==
  {[present |-> TRUE,
    namedComponents |-> ArrayValue(q[1]),
    unnamedComponents |-> ArrayValue(q[2]),
    defaultExport |-> [present |-> TRUE,
                       namedComponents |-> ArrayValue(q[3]),
                       unnamedComponents |-> UndefinedValue]]
     : q \in ArraysOf(NamedEnum, MaxLongListLen)
             \X ArraysOf(UnnamedEnum, MaxLongListLen)
             \X ArraysOf(NamedEnum, MaxLongListLen)}

InitLongLists ==
  /\ pc = "create"
  /\ configuration \in LongListOptions
  /\ namedConfig = <<>>
  /\ unnamedConfig = <<>>
  /\ defaultExportNamedConfig = <<>>
  /\ defaultExportUnnamedConfig = <<>>
  /\ node = NoNode
  /\ reports = <<>>
  /\ edit = NoEdit
  /\ output = ""

NextLongLists ==
  \/ Create
  \/ FunctionDeclaration
  \/ ArrowFunctionExpression
  \/ FunctionExpression
  \/ Return

SpecLongLists == InitLongLists /\ [][NextLongLists]_vars

\* ---------------------------------------------------------- source files
\* the source files analyzed : one statement between two others
Prefix == "a;\n"
Suffix == "\nz;"
ComponentName == "Add"
TypeParametersText == "<T, U>"
ReturnTypeText == ": number"
SiblingText == ", b = 1"
ParamLists == {<<>>, <<"a: number", "b: number">>, <<"{name}">>, <<"{body}">>}
BlockBodies == {"{ return a + b }", "{ return <b>{name}</b> }"}
ExpressionBody == "a + b"

Bodies(arrow) ==
  {[text |-> b, type |-> "BlockStatement"] : b \in BlockBodies}
  \cup (IF arrow THEN {[text |-> ExpressionBody, type |-> "BinaryExpression"]}
        ELSE {})

\* the parts a function is written from; an arrow function is never a
\* generator
FunctionTexts(arrow) ==
  [async : BOOLEAN,
   generator : IF arrow THEN {FALSE} ELSE BOOLEAN,
   typeParameters : {"", TypeParametersText},
   params : ParamLists,
   returnType : {"", ReturnTypeText},
   body : Bodies(arrow)]

RECURSIVE JoinParams(_)
JoinParams(ps) ==
  IF ps = <<>> THEN ""
  ELSE IF Len(ps) = 1 THEN ps[1]
  ELSE ps[1] \o ", " \o JoinParams(Tail(ps))

RECURSIVE ParamRanges(_, _)
ParamRanges(ps, start) ==
  IF ps = <<>> THEN <<>>
  ELSE <<<<start, start + Len(ps[1])>>>>
       \o ParamRanges(Tail(ps), start + Len(ps[1]) + 2)

\* The node of a function written as
\*   lead [async ]head typeParameters(params)returnType mid body trail
\* with the ranges the parser gives its children; declarationRange is
\* node.parent.parent.range of a function bound by a declarator.
SourceNode(type, parentType, lead, head, mid, trail, annotation, declarations, f) ==
  LET front == (IF f.async THEN "async " ELSE "") \o head
      params == JoinParams(f.params)
      fn == front \o f.typeParameters \o "(" \o params \o ")"
              \o f.returnType \o mid \o f.body.text
      statement == lead \o fn \o trail
      fnStart == Len(Prefix) + Len(lead)
      tpStart == fnStart + Len(front)
      tpEnd == tpStart + Len(f.typeParameters)
      psStart == tpEnd + 1
      rtStart == psStart + Len(params) + 1
      rtEnd == rtStart + Len(f.returnType)
      bodyStart == rtEnd + Len(mid)
      bodyEnd == bodyStart + Len(f.body.text)
  IN [type |-> type,
      parentType |-> parentType,
      hasId |-> type = "FunctionDeclaration",
      bindingTypeAnnotation |-> IF annotation = "" THEN Null ELSE annotation,
      typeParams |-> IF f.typeParameters = "" THEN NoTypeParams
                     ELSE [length |-> 2, firstConstraint |-> FALSE],
      isComponent |-> TRUE,
      source |-> Prefix \o statement \o Suffix,
      range |-> <<fnStart, bodyEnd>>,
      declarationRange |-> <<Len(Prefix), Len(Prefix) + Len(statement)>>,
      declarations |-> declarations,
      name |-> ComponentName,
      typeParameters |-> Prop(f.typeParameters /= "", tpStart, tpEnd),
      params |-> ParamRanges(f.params, psStart),
      returnType |-> Prop(f.returnType /= "", rtStart, rtEnd),
      body |-> [type |-> f.body.type, range |-> <<bodyStart, bodyEnd>>],
      async |-> f.async,
      generator |-> f.generator]

Star(f) == IF f.generator THEN "*" ELSE ""

\* const Add[: FC] = ...[, b = 1];
Bindings ==
  {[lead |-> "const " \o ComponentName \o a \o " = ", annotation |-> a,
    trail |-> (IF d = 2 THEN SiblingText ELSE "") \o ";", declarations |-> d]
     : <<a, d>> \in {"", AnnotationText} \X {1, 2}}

SourceNodes ==
  {SourceNode("FunctionDeclaration", "Program", "",
              "function" \o Star(f) \o " " \o ComponentName, " ", "", "", 0, f)
     : f \in FunctionTexts(FALSE)}
  \cup {SourceNode("ArrowFunctionExpression", "VariableDeclarator", q[1].lead,
                   "", " => ", q[1].trail, q[1].annotation, q[1].declarations, q[2])
          : q \in Bindings \X FunctionTexts(TRUE)}
  \cup {SourceNode("FunctionExpression", "VariableDeclarator", q[1].lead,
                   "function" \o Star(q[2]), " ", q[1].trail, q[1].annotation,
                   q[1].declarations, q[2])
          : q \in Bindings \X FunctionTexts(FALSE)}
  \cup {SourceNode("ArrowFunctionExpression", "CallExpression", "memo(",
                   "", " => ", ");", "", 0, f)
          : f \in FunctionTexts(TRUE)}
  \cup {SourceNode("FunctionExpression", "CallExpression", "memo(",
                   "function" \o Star(f), " ", ");", "", 0, f)
          : f \in FunctionTexts(FALSE)}

\* each option given as one string, no defaultExport
TextOptions ==
  {[present |-> TRUE,
    namedComponents |-> StringValue(q[1]),
    unnamedComponents |-> StringValue(q[2]),
    defaultExport |-> [present |-> FALSE, namedComponents |-> UndefinedValue,
                       unnamedComponents |-> UndefinedValue]]
     : q \in NamedEnum \X UnnamedEnum}

InitText ==
  /\ pc = "create"
  /\ configuration \in TextOptions
  /\ namedConfig = <<>>
  /\ unnamedConfig = <<>>
  /\ defaultExportNamedConfig = <<>>
  /\ defaultExportUnnamedConfig = <<>>
  /\ node = NoNode
  /\ reports = <<>>
  /\ edit = NoEdit
  /\ output = ""

\* a visitor callback on a node of one of the source files
VisitSource ==
  /\ pc = "idle"
  /\ \E n \in SourceNodes : Visit(n)

\* options.range of the fixer, resolved on the node
FixRange(n, range) ==
  IF range = "node.range" THEN n.range ELSE n.declarationRange

\* the host calls the fix closure : fixer.replaceTextRange(range, text)
SynthesizeFix ==
  /\ pc = "visited"
  /\ Len(reports) = 1
  /\ reports[1].fix.present
  /\ LET fix == reports[1].fix
         source == node.source
     IN edit' =
          [range |-> FixRange(node, fix.range),
           text |-> buildFunction(fix.template,
                      [typeAnnotation |-> fix.typeAnnotation,
                       typeParams |-> getNodeText(node.typeParameters, source),
                       params |-> getParams(node, source),
                       returnType |-> getNodeText(node.returnType, source),
                       body |-> getBody(node, source),
                       name |-> getName(node)])]
  /\ pc' = "synthesized"
  /\ UNCHANGED <<node, reports, output>>
  /\ UNCHANGED cfgVars

\* the host applies the edit to the source text
ApplyEdit ==
  /\ pc = "synthesized"
  /\ output' = Slice(node.source, 0, edit.range[1]) \o edit.text
                 \o Slice(node.source, edit.range[2], Len(node.source))
  /\ pc' = "applied"
  /\ UNCHANGED <<node, reports, edit>>
  /\ UNCHANGED cfgVars

NextText ==
  \/ Create
  \/ VisitSource
  \/ SynthesizeFix
  \/ ApplyEdit
  \/ Return

SpecText == InitText /\ [][NextText]_vars

\* ------------------------------------------------- vocabulary of the claims
Visited == pc = "visited"

IsNamedNode(n) ==
  n.type = "FunctionDeclaration" \/ n.parentType = "VariableDeclarator"

IsDefaultExportedDeclaration(n) ==
  n.type = "FunctionDeclaration" /\ n.parentType = "ExportDefaultDeclaration"

\* the list the policy selects for a node
SelectedList(n) ==
  IF IsDefaultExportedDeclaration(n)
  THEN IF IsNamedNode(n) THEN defaultExportNamedConfig
       ELSE defaultExportUnnamedConfig
  ELSE IF IsNamedNode(n) THEN namedConfig ELSE unnamedConfig

\* the top-level list for a node
TopLevelList(n) == IF IsNamedNode(n) THEN namedConfig ELSE unnamedConfig

Member(list, x) == \E i \in DOMAIN list : list[i] = x

\* a component function node that is not the value of a property
IsCandidate(n) == n.isComponent /\ n.parentType /= "Property"

Conforming(n) ==
  IsCandidate(n) /\ Member(SelectedList(n), VisitorFunctionType(n.type))

NonConforming(n) ==
  IsCandidate(n) /\ ~Member(SelectedList(n), VisitorFunctionType(n.type))

\* the target variant of the policy : first element of the selected list
TargetVariant(n) == First(SelectedList(n))

OneUnconstrainedTypeParam(n) ==
  n.typeParams.length = 1 /\ ~n.typeParams.firstConstraint

AnnotatedBinding(n) ==
  n.parentType = "VariableDeclarator" /\ n.bindingTypeAnnotation = AnnotationText

SelfNamedFunctionExpression(n) == n.type = "FunctionExpression" /\ n.hasId

ReportedOnce == Len(reports) = 1

FixOffered == Len(reports) = 1 /\ reports[1].fix.present

\* C1: a component node that is not a property value and whose variant is
\* anywhere in the applicable list is not reported and gets no fix
C1_ConformingNotReported ==
  (Visited /\ Conforming(node)) => reports = <<>>

\* a conforming node whose variant is the second entry of its list and on
\* which a fixability guard holds
C1_Witness ==
  /\ Visited
  /\ Conforming(node)
  /\ Len(SelectedList(node)) = 2
  /\ SelectedList(node)[2] = VisitorFunctionType(node.type)
  /\ SelfNamedFunctionExpression(node)
  /\ reports = <<>>

\* C2: the message key of a report is the first element of the list that
\* was selected for the conformance check, and so is the key of the
\* template of an offered fix
C2_TargetFromSelectedList ==
  (Visited /\ NonConforming(node)) =>
     /\ ReportedOnce
     /\ reports[1].messageId = TargetVariant(node)
     /\ reports[1].fix.present =>
          reports[1].fix.template =
            IF IsNamedNode(node)
            THEN Lookup(NAMED_FUNCTION_TEMPLATES, TargetVariant(node))
            ELSE Lookup(UNNAMED_FUNCTION_TEMPLATES, TargetVariant(node))

\* the lists over which the defaultExport options range
NamedLists == ArraysOf(NamedEnum, MaxListLen)
UnnamedLists == ArraysOf(UnnamedEnum, MaxListLen)

\* C3: the defaultExport lists decide conformance exactly for a function
\* declaration whose parent is an export default; every other node is
\* checked against the top-level lists and its outcome is the same under
\* every other value of the defaultExport lists
C3_DefaultExportScope ==
  Visited =>
    /\ (IsDefaultExportedDeclaration(node) /\ IsCandidate(node)) =>
         (reports = <<>> <=> Member(defaultExportNamedConfig, FunctionDeclarationKey))
    /\ (~IsDefaultExportedDeclaration(node) /\ IsCandidate(node)) =>
         (reports = <<>> <=>
            Member(TopLevelList(node), VisitorFunctionType(node.type)))
    /\ ~IsDefaultExportedDeclaration(node) =>
         \A d \in NamedLists \X UnnamedLists :
           validate(node, VisitorFunctionType(node.type),
                    Config(namedConfig, unnamedConfig, d[1], d[2])) = reports

\* a default-exported arrow function that the top-level list accepts and
\* the defaultExport list would not, and is not reported
C3_Witness ==
  /\ Visited
  /\ IsCandidate(node)
  /\ node.type = "ArrowFunctionExpression"
  /\ node.parentType = "ExportDefaultDeclaration"
  /\ Member(unnamedConfig, ArrowFunctionKey)
  /\ ~Member(defaultExportUnnamedConfig, ArrowFunctionKey)
  /\ ~Member(defaultExportNamedConfig, ArrowFunctionKey)
  /\ reports = <<>>

\* C4: a visitor call makes at most one report, and exactly one for a
\* non-conforming node, whether or not the report carries a fix
C4_ExactlyOneReport ==
  Visited =>
    /\ Len(reports) <= 1
    /\ NonConforming(node) => ReportedOnce

\* a non-conforming node reported once with the fix suppressed
C4_Witness ==
  /\ Visited
  /\ NonConforming(node)
  /\ ReportedOnce
  /\ ~reports[1].fix.present

\* C5: with target arrow-function, exactly one unconstrained type
\* parameter means a report without fix; any other type parameter list
\* does not by itself suppress the fix
C5_UnconstrainedTypeParam ==
  (Visited /\ NonConforming(node) /\ TargetVariant(node) = ArrowFunctionKey) =>
    /\ ReportedOnce
    /\ OneUnconstrainedTypeParam(node) => ~reports[1].fix.present
    /\ (/\ ~OneUnconstrainedTypeParam(node)
        /\ ~IsDefaultExportedDeclaration(node)
        /\ ~SelfNamedFunctionExpression(node)) => reports[1].fix.present

\* a node on which only the type parameter guard holds, reported without
\* a fix
C5_Witness ==
  /\ Visited
  /\ NonConforming(node)
  /\ TargetVariant(node) = ArrowFunctionKey
  /\ OneUnconstrainedTypeParam(node)
  /\ ~IsDefaultExportedDeclaration(node)
  /\ ~SelfNamedFunctionExpression(node)
  /\ ReportedOnce
  /\ ~reports[1].fix.present

\* C6: with target function-declaration, a type annotation on the
\* enclosing variable binding means a report without fix
C6_AnnotatedBinding ==
  (/\ Visited
   /\ NonConforming(node)
   /\ TargetVariant(node) = FunctionDeclarationKey
   /\ AnnotatedBinding(node)) =>
     (ReportedOnce /\ ~reports[1].fix.present)

\* a node on which only the annotation guard holds, reported without a fix
C6_Witness ==
  /\ Visited
  /\ NonConforming(node)
  /\ TargetVariant(node) = FunctionDeclarationKey
  /\ AnnotatedBinding(node)
  /\ node.type = "ArrowFunctionExpression"
  /\ ReportedOnce
  /\ ~reports[1].fix.present

\* C7: a non-conforming default-exported function declaration is reported
\* and never carries a fix
C7_DefaultExportUnfixable ==
  (Visited /\ NonConforming(node) /\ IsDefaultExportedDeclaration(node)) =>
    (ReportedOnce /\ ~reports[1].fix.present)

\* export default function Example() {} with defaultExport.namedComponents
\* arrow-function, no other guard holding
C7_Witness ==
  /\ Visited
  /\ NonConforming(node)
  /\ IsDefaultExportedDeclaration(node)
  /\ node.hasId
  /\ defaultExportNamedConfig = <<ArrowFunctionKey>>
  /\ namedConfig = <<ArrowFunctionKey>>
  /\ ~OneUnconstrainedTypeParam(node)
  /\ ReportedOnce
  /\ ~reports[1].fix.present

\* C8: a non-conforming function expression with an identifier of its own
\* is reported and never carries a fix
C8_SelfNamedUnfixable ==
  (Visited /\ NonConforming(node) /\ SelfNamedFunctionExpression(node)) =>
    (ReportedOnce /\ ~reports[1].fix.present)

\* const Example = function Example() {} with target arrow-function, no
\* other guard holding
C8_Witness ==
  /\ Visited
  /\ NonConforming(node)
  /\ SelfNamedFunctionExpression(node)
  /\ node.parentType = "VariableDeclarator"
  /\ TargetVariant(node) = ArrowFunctionKey
  /\ ~OneUnconstrainedTypeParam(node)
  /\ ReportedOnce
  /\ ~reports[1].fix.present

AllDefaults ==
  /\ namedConfig = <<FunctionDeclarationKey>>
  /\ unnamedConfig = <<FunctionExpressionKey>>
  /\ defaultExportNamedConfig = <<FunctionDeclarationKey>>
  /\ defaultExportUnnamedConfig = <<FunctionExpressionKey>>

\* what create makes of absent options
C10_CreateStep ==
  (pc = "create" /\ pc' = "idle") =>
    /\ ~configuration.present =>
         /\ namedConfig' = <<FunctionDeclarationKey>>
         /\ unnamedConfig' = <<FunctionExpressionKey>>
         /\ defaultExportNamedConfig' = <<FunctionDeclarationKey>>
         /\ defaultExportUnnamedConfig' = <<FunctionExpressionKey>>
    /\ configuration.defaultExport.namedComponents.kind = "undefined" =>
         defaultExportNamedConfig' = <<FunctionDeclarationKey>>
    /\ configuration.defaultExport.unnamedComponents.kind = "undefined" =>
         defaultExportUnnamedConfig' = <<FunctionExpressionKey>>

\* what the default lists require of a component
C10_DefaultPolicy ==
  (Visited /\ AllDefaults /\ IsCandidate(node)) =>
    /\ IsNamedNode(node) =>
         /\ reports = <<>> <=> node.type = "FunctionDeclaration"
         /\ reports /= <<>> =>
              (ReportedOnce /\ reports[1].messageId = FunctionDeclarationKey)
    /\ ~IsNamedNode(node) =>
         /\ reports = <<>> <=> node.type = "FunctionExpression"
         /\ reports /= <<>> =>
              (ReportedOnce /\ reports[1].messageId = FunctionExpressionKey)

\* C10: with no options the four lists are [function-declaration],
\* [function-expression], [function-declaration], [function-expression],
\* so a named component must be a function declaration and an unnamed one
\* a function expression; an absent defaultExport option gets its default
\* whatever the top-level options are
C10_Defaults == [][C10_CreateStep]_vars /\ []C10_DefaultPolicy

\* an unnamed inline arrow function component under the default lists,
\* reported with the key function-expression
C10_Witness ==
  /\ Visited
  /\ AllDefaults
  /\ IsCandidate(node)
  /\ node.type = "ArrowFunctionExpression"
  /\ node.parentType = "CallExpression"
  /\ ReportedOnce
  /\ reports[1].messageId = FunctionExpressionKey

\* C13: the range a fix replaces is the node's own range for a function
\* declaration and for an unnamed function, and the range of the whole
\* variable declaration, node.parent.parent, for an arrow function or
\* function expression bound by a declarator
C13_ReplacementRange ==
  (Visited /\ FixOffered) =>
    reports[1].fix.range =
      IF node.type = "FunctionDeclaration" THEN "node.range"
      ELSE IF node.parentType = "VariableDeclarator"
           THEN "node.parent.parent.range"
           ELSE "node.range"

\* a declarator-bound arrow function whose fix replaces the declaration
C13_Witness ==
  /\ Visited
  /\ FixOffered
  /\ node.type = "ArrowFunctionExpression"
  /\ node.parentType = "VariableDeclarator"
  /\ reports[1].fix.range = "node.parent.parent.range"

\* C16: a function node whose parent is a Property is never reported,
\* and so never fixed, even when it is a component
C16_PropertySkipped ==
  (pc \in {"visited", "fixed", "threw", "reanalyzed"}
     /\ node.parentType = "Property") =>
    (pc = "visited" /\ reports = <<>>)

\* a component under a Property whose variant is in neither top-level
\* list, visited and not reported
C16_Witness ==
  /\ Visited
  /\ node.parentType = "Property"
  /\ node.isComponent
  /\ ~Member(namedConfig, VisitorFunctionType(node.type))
  /\ ~Member(unnamedConfig, VisitorFunctionType(node.type))
  /\ reports = <<>>

\* the four lists stay as create built them
C18_ListsFrozen ==
  pc \notin {"load", "create"} =>
    UNCHANGED <<namedConfig, unnamedConfig, defaultExportNamedConfig,
                defaultExportUnnamedConfig>>

\* between two callbacks nothing of the earlier node is left
C18_NothingCarried ==
  pc = "idle" => (node = NoNode /\ reports = <<>> /\ edit = NoEdit /\ output = "")

\* C18: over any sequence of visitor callbacks the four lists are never
\* modified and a callback starts from a state that holds the lists only,
\* so its outcome is the same whatever was visited before
C18_NoSharedState == [][C18_ListsFrozen]_vars /\ []C18_NothingCarried

\* a callback that reported, with lists of two entries still in place
C18_Witness ==
  /\ Visited
  /\ ReportedOnce
  /\ Len(namedConfig) = 2
  /\ Len(unnamedConfig) = 2
  /\ node.type = "FunctionDeclaration"

FirstGuard(n) ==
  TargetVariant(n) = FunctionDeclarationKey /\ AnnotatedBinding(n)

SecondGuard(n) ==
  TargetVariant(n) = ArrowFunctionKey /\ OneUnconstrainedTypeParam(n)

\* C20: a non-conforming node gets a fix exactly when none of the four
\* guard conditions holds
C20_FixIffNoGuard ==
  (Visited /\ NonConforming(node)) =>
    /\ ReportedOnce
    /\ reports[1].fix.present <=>
         ~(\/ FirstGuard(node)
           \/ SecondGuard(node)
           \/ IsDefaultExportedDeclaration(node)
           \/ SelfNamedFunctionExpression(node))

\* an annotated function expression rewritten to an arrow function: the
\* annotation does not matter for that target and a fix is offered
C20_Witness ==
  /\ Visited
  /\ NonConforming(node)
  /\ AnnotatedBinding(node)
  /\ node.type = "FunctionExpression"
  /\ TargetVariant(node) = ArrowFunctionKey
  /\ FixOffered

\* the lists with the same first entry and the same later entries in any
\* order
TailPermutations(list) ==
  {p \in ArraysOf(NamedEnum, MaxLongListLen) :
     /\ Len(p) = Len(list)
     /\ Len(list) > 0 => p[1] = list[1]
     /\ {p[i] : i \in DOMAIN p} = {list[i] : i \in DOMAIN list}}

\* the template of the first entry of the list selected for a node
FirstEntry(n) ==
  IF Len(SelectedList(n)) = 0 THEN Undefined ELSE SelectedList(n)[1]

TargetTemplate(n) ==
  IF IsNamedNode(n)
  THEN Lookup(NAMED_FUNCTION_TEMPLATES, FirstEntry(n))
  ELSE Lookup(UNNAMED_FUNCTION_TEMPLATES, FirstEntry(n))

\* C17: a fix is always toward the first entry of the list; when a guard
\* on the first entry suppresses it no fix toward a later entry is
\* offered; and the order of the entries after the first changes neither
\* report nor fix
C17_FirstEntryNoFallback ==
  Visited =>
    /\ FixOffered => reports[1].fix.template = TargetTemplate(node)
    /\ (NonConforming(node) /\ (FirstGuard(node) \/ SecondGuard(node))) =>
         (ReportedOnce /\ ~reports[1].fix.present)
    /\ \A q \in TailPermutations(namedConfig) \X TailPermutations(unnamedConfig)
                 \X TailPermutations(defaultExportNamedConfig) :
         validate(node, VisitorFunctionType(node.type),
                  Config(q[1], q[2], q[3], defaultExportUnnamedConfig)) = reports

\* a function declaration with one unconstrained type parameter under
\* [arrow-function, function-expression]: the fix toward arrow-function
\* is suppressed, one toward function-expression would not be, and no
\* fix is offered
C17_Witness ==
  /\ Visited
  /\ NonConforming(node)
  /\ node.type = "FunctionDeclaration"
  /\ ~IsDefaultExportedDeclaration(node)
  /\ namedConfig = <<ArrowFunctionKey, FunctionExpressionKey>>
  /\ OneUnconstrainedTypeParam(node)
  /\ ReportedOnce
  /\ ~reports[1].fix.present

\* what the specification allows for an option : absent, one of the
\* listed strings, or an array of the listed strings
Allowed(v, strings) ==
  \/ v.kind = "undefined"
  \/ v.kind = "string" /\ v.str \in strings
  \/ v.kind = "array" /\ \A i \in DOMAIN v.arr : v.arr[i] \in strings

NamedAllowed == {"function-declaration", "arrow-function", "function-expression"}
UnnamedAllowed == {"arrow-function", "function-expression"}

ShapeAllowed(c) ==
  /\ Allowed(c.namedComponents, NamedAllowed)
  /\ Allowed(c.unnamedComponents, UnnamedAllowed)

OptionsAllowed(o) ==
  o.present => (ShapeAllowed(o) /\ (o.defaultExport.present => ShapeAllowed(o.defaultExport)))

\* the option is the string s or an array holding it
Gives(v, x) ==
  \/ v.kind = "string" /\ v.str = x
  \/ v.kind = "array" /\ \E i \in DOMAIN v.arr : v.arr[i] = x

GivesSomewhere(o, x, unnamedOnly) ==
  \/ Gives(o.unnamedComponents, x)
  \/ Gives(o.defaultExport.unnamedComponents, x)
  \/ ~unnamedOnly /\ (Gives(o.namedComponents, x) \/ Gives(o.defaultExport.namedComponents, x))

Rejected == pc = "rejected"

\* a rejected configuration is final : no step leaves it
C19_RejectedStep == ~Rejected

\* the options create receives are exactly the allowed ones; every other
\* configuration ends in a configuration error with no list built, no
\* node visited and nothing reported
C19_Accepted ==
  /\ pc = "load" => \A o \in RawOptions : SchemaValid(o) <=> OptionsAllowed(o)
  /\ pc = "create" => OptionsAllowed(configuration)
  /\ Rejected =>
       /\ ~OptionsAllowed(configuration)
       /\ namedConfig = <<>> /\ unnamedConfig = <<>>
       /\ defaultExportNamedConfig = <<>> /\ defaultExportUnnamedConfig = <<>>
       /\ node = NoNode /\ reports = <<>>
  /\ pc \in {"create", "rejected"} =>
       /\ GivesSomewhere(configuration, "function-declaration", TRUE) => Rejected
       /\ GivesSomewhere(configuration, OtherString, FALSE) => Rejected

\* C19: the schema accepts namedComponents as one of the three variants
\* or an array of them and unnamedComponents as arrow-function or
\* function-expression or an array of them, at top level and under
\* defaultExport; function-declaration for unnamedComponents or any other
\* string is a configuration error raised before any node is analyzed
C19_SchemaRejects == [][C19_RejectedStep]_vars /\ []C19_Accepted

\* function-declaration given for unnamedComponents under defaultExport
\* with everything else allowed : rejected
C19_Witness ==
  /\ Rejected
  /\ configuration.defaultExport.unnamedComponents = StringValue("function-declaration")
  /\ configuration.namedComponents = ArrayValue(<<"arrow-function">>)
  /\ configuration.unnamedComponents = UndefinedValue
  /\ configuration.defaultExport.namedComponents = UndefinedValue

Synthesized == pc = "synthesized"
Applied == pc = "applied"

\* the fragments of the node as they stand in its source, empty when
\* absent
Fragment(n) ==
  [name |-> IF IsNamedNode(n) THEN n.name ELSE "",
   typeAnnotation |-> IF n.type /= "FunctionDeclaration" /\ IsNamedNode(n)
                         /\ n.bindingTypeAnnotation /= Null
                      THEN n.bindingTypeAnnotation ELSE "",
   typeParams |-> IF n.typeParameters.present
                  THEN SubSeq(n.source, n.typeParameters.range[1] + 1,
                              n.typeParameters.range[2])
                  ELSE "",
   params |-> IF Len(n.params) > 0
              THEN SubSeq(n.source, n.params[1][1] + 1, n.params[Len(n.params)][2])
              ELSE "",
   returnType |-> IF n.returnType.present
                  THEN SubSeq(n.source, n.returnType.range[1] + 1, n.returnType.range[2])
                  ELSE "",
   body |-> IF n.body.type = "BlockStatement"
            THEN SubSeq(n.source, n.body.range[1] + 1, n.body.range[2])
            ELSE "{\n  return " \o SubSeq(n.source, n.body.range[1] + 1, n.body.range[2])
                 \o "\n}"]

\* the template of a variant with each placeholder filled by its fragment,
\* all at once
Filled(named, variant, f) ==
  LET signature == f.typeParams \o "(" \o f.params \o ")" \o f.returnType
  IN IF named
     THEN CASE variant = "function-declaration" ->
                 "function " \o f.name \o signature \o " " \o f.body
            [] variant = "arrow-function" ->
                 "var " \o f.name \o f.typeAnnotation \o " = " \o signature
                   \o " => " \o f.body
            [] OTHER ->
                 "var " \o f.name \o f.typeAnnotation \o " = function" \o signature
                   \o " " \o f.body
     ELSE CASE variant = "function-expression" ->
                 "function" \o signature \o " " \o f.body
            [] OTHER -> signature \o " => " \o f.body

\* C11: the replacement text is the target template with every
\* placeholder replaced by the fragment of the source, each fragment
\* verbatim and once at the place of its placeholder, whatever the
\* fragments hold
C11_VerbatimFragments ==
  Synthesized =>
    edit.text = Filled(IsNamedNode(node), reports[1].messageId, Fragment(node))

\* const Add = (a: number, b: number): number => a + b;
IsAddExample(n) ==
  /\ n.type = "ArrowFunctionExpression"
  /\ n.parentType = "VariableDeclarator"
  /\ n.source = Prefix \o "const Add = (a: number, b: number): number => a + b;"
                  \o Suffix

\* C12 as stated: for const Add = (a: number, b: number): number => a + b;
\* with target function-expression the replacement text is exactly
\* var Add = function(a: number, b: number): number { return a + b }
C12_OneLineReturn ==
  (Synthesized /\ IsAddExample(node) /\ namedConfig = <<"function-expression">>) =>
    edit.text = "var Add = function(a: number, b: number): number { return a + b }"

\* C12: for const Add = (a: number, b: number): number => a + b; with
\* target function-expression the replacement text is the function
\* expression whose body is a block of three lines: an opening brace,
\* the return statement indented by two spaces, a closing brace
C12_ReturnBlock ==
  (Synthesized /\ IsAddExample(node) /\ namedConfig = <<"function-expression">>) =>
    edit.text =
      "var Add = function(a: number, b: number): number {\n  return a + b\n}"

C12_Witness ==
  /\ Synthesized
  /\ IsAddExample(node)
  /\ namedConfig = <<"function-expression">>
  /\ IndexOf(edit.text, "\n  return a + b\n") > 0

StartsWith(s, p) == Len(s) >= Len(p) /\ SubSeq(s, 1, Len(p)) = p
EndsWith(s, p) == Len(s) >= Len(p) /\ SubSeq(s, Len(s) - Len(p) + 1, Len(s)) = p
Contains(s, p) == IndexOf(s, p) > 0

\* C14: applying a fix leaves the text outside the function and its
\* binding as it was; a sibling declarator of the same declaration is
\* still there after the fix
C14_OutsideUnchanged ==
  Applied =>
    /\ StartsWith(output, Prefix)
    /\ EndsWith(output, Suffix)
    /\ ~IsNamedNode(node) =>
         (StartsWith(output, Prefix \o "memo(") /\ EndsWith(output, ");" \o Suffix))
    /\ (IsNamedNode(node) /\ node.declarations > 1) => Contains(output, "b = 1")

\* C15: the function is async after the fix exactly when it was before,
\* and a generator after the fix exactly when it was before
C15_ModifiersPreserved ==
  Synthesized =>
    /\ node.async <=> Contains(edit.text, "async")
    /\ node.generator <=> Contains(edit.text, "*")


\* list[0], claim side
Front(list) == IF Len(list) = 0 THEN "undefined" ELSE list[1]

Reported == Len(reports) > 0

\* C21: a node is named exactly when it is a FunctionDeclaration or its
\* parent is a VariableDeclarator; every other arrow function or function
\* expression is unnamed and is judged against the unnamed list
C21_NamedClassification ==
  (Visited /\ IsCandidate(node)) =>
    LET variant == VisitorFunctionType(node.type)
    IN IF node.type = "FunctionDeclaration" \/ node.parentType = "VariableDeclarator"
       THEN /\ Reported <=>
                 ~Member(IF IsDefaultExportedDeclaration(node)
                         THEN defaultExportNamedConfig ELSE namedConfig, variant)
            /\ Reported => reports[1].messageId = Front(namedConfig)
       ELSE /\ node.type \in {"ArrowFunctionExpression", "FunctionExpression"}
            /\ Reported <=> ~Member(unnamedConfig, variant)
            /\ Reported => reports[1].messageId = Front(unnamedConfig)

\* a default-exported arrow function is judged against the unnamed list
\* although the named lists would accept it
C21_Witness ==
  /\ Visited
  /\ IsCandidate(node)
  /\ node.type = "ArrowFunctionExpression"
  /\ node.parentType = "ExportDefaultDeclaration"
  /\ unnamedConfig = <<"function-expression">>
  /\ namedConfig = <<"arrow-function">>
  /\ defaultExportNamedConfig = <<"arrow-function">>
  /\ Reported
  /\ reports[1].messageId = "function-expression"


\* the list a candidate node is judged against when the default-export
\* lists apply to default-exported function declarations only
JudgedAgainst(n) ==
  IF n.type = "FunctionDeclaration" /\ n.parentType = "ExportDefaultDeclaration"
  THEN defaultExportNamedConfig
  ELSE IF n.type = "FunctionDeclaration" \/ n.parentType = "VariableDeclarator"
       THEN namedConfig
       ELSE unnamedConfig

\* C22 as stated: isDefaultExport is true only for a function declaration
\* that has an identifier and whose parent is a default export
C22_OnlyWithIdentifier ==
  Visited =>
    (isDefaultExport(node) =>
       /\ node.type = "FunctionDeclaration"
       /\ node.hasId
       /\ node.parentType = "ExportDefaultDeclaration")

\* C22: isDefaultExport is true exactly for a function declaration, with
\* or without an identifier, whose parent is a default export; it is
\* false for arrow functions, function expressions and declarations
\* under another parent, and the default-export list is used for no
\* other node
C22_DefaultExportedDeclaration ==
  Visited =>
    /\ isDefaultExport(node) <=>
         (node.type = "FunctionDeclaration"
            /\ node.parentType = "ExportDefaultDeclaration")
    /\ IsCandidate(node) =>
         (Reported <=> ~Member(JudgedAgainst(node), VisitorFunctionType(node.type)))

\* export default function () {...} under a default-export policy of
\* arrow functions : judged against the default-export list
C22_Witness ==
  /\ Visited
  /\ IsCandidate(node)
  /\ node.type = "FunctionDeclaration"
  /\ ~node.hasId
  /\ node.parentType = "ExportDefaultDeclaration"
  /\ isDefaultExport(node)
  /\ defaultExportNamedConfig = <<"arrow-function">>
  /\ namedConfig = <<"function-declaration">>
  /\ Reported


\* no fragment of the source looks like a placeholder
PlainSource(n) ==
  /\ IndexOf(n.source, "{name}") = 0
  /\ IndexOf(n.source, "{body}") = 0

\* the text of the body as it stands in the source
BodyText(n) == SubSeq(n.source, n.body.range[1] + 1, n.body.range[2])

\* C23: the body fragment of a fix is the body text of the source when
\* the body is a block, and a block holding one return statement of the
\* expression text when the body is an expression; either way it is a
\* block, and it ends the replacement text
C23_BodyFragment ==
  Synthesized =>
    LET fragment == getBody(node, node.source)
    IN /\ node.body.type = "BlockStatement" => fragment = BodyText(node)
       /\ node.body.type /= "BlockStatement" =>
            fragment = "{\n  return " \o BodyText(node) \o "\n}"
       /\ SubSeq(fragment, 1, 1) = "{"
       /\ SubSeq(fragment, Len(fragment), Len(fragment)) = "}"
       /\ PlainSource(node) => EndsWith(edit.text, " " \o fragment)

\* an arrow function with the expression body a + b : the replacement
\* ends with the return block
C23_Witness ==
  /\ Synthesized
  /\ node.type = "ArrowFunctionExpression"
  /\ node.body.type = "BinaryExpression"
  /\ BodyText(node) = "a + b"
  /\ PlainSource(node)
  /\ EndsWith(edit.text, " {\n  return a + b\n}")

\* the number of places where the character c stands in s
Count(s, c) == Cardinality({i \in 1..Len(s) : SubSeq(s, i, i) = c})

\* the text from the start of the first parameter to the end of the last
ParamsText(n) ==
  IF Len(n.params) = 0 THEN ""
  ELSE SubSeq(n.source, n.params[1][1] + 1, n.params[Len(n.params)][2])

\* C24: the params fragment is the source text from the start of the
\* first parameter to the end of the last, nothing when there is no
\* parameter, and the replacement holds exactly one parenthesized
\* parameter list
C24_ParamsFragment ==
  Synthesized =>
    LET fragment == getParams(node, node.source)
    IN /\ Len(node.params) = 0 => ~Truthy(fragment)
       /\ Len(node.params) > 0 => fragment = ParamsText(node)
       /\ Count(edit.text, "(") = 1
       /\ Count(edit.text, ")") = 1
       /\ PlainSource(node) =>
            IndexOf(edit.text, "(" \o ParamsText(node) \o ")") > 0

\* two parameters : both and the comma between them are carried over
C24_Witness ==
  /\ Synthesized
  /\ Len(node.params) = 2
  /\ PlainSource(node)
  /\ IndexOf(edit.text, "(a: number, b: number)") > 0


\* a node that component detection does not know is not reported
C25_NotReported ==
  (pc \in {"visited", "fixed", "threw"} /\ ~node.isComponent) => reports = <<>>

\* after the callback on such a node the host has no fix to apply
C25_NoFixStep ==
  (pc = "visited" /\ ~node.isComponent) => pc' = "idle"

\* C25: a node for which component detection returns nothing is never
\* reported and never fixed, whatever the configuration and the variant
C25_NonComponentIgnored == [][C25_NoFixStep]_vars /\ []C25_NotReported

\* a function declaration that is no component under a policy of arrow
\* functions : nothing reported
C25_Witness ==
  /\ Visited
  /\ ~node.isComponent
  /\ node.type = "FunctionDeclaration"
  /\ node.parentType = "Program"
  /\ namedConfig = <<"arrow-function">>
  /\ reports = <<>>


\* the ways of writing an option value : a string s may be written [s]
\* and an array [s] may be written s
Spellings(v) ==
  IF v.kind = "string" THEN {v, [kind |-> "array", str |-> "undefined", arr |-> <<v.str>>]}
  ELSE IF v.kind = "array" /\ Len(v.arr) = 1
       THEN {v, [kind |-> "string", str |-> v.arr[1], arr |-> <<>>]}
       ELSE {v}

\* the configurations that differ from o only in such spellings
Respellings(o) ==
  {[present |-> o.present,
    namedComponents |-> q[1],
    unnamedComponents |-> q[2],
    defaultExport |-> [present |-> o.defaultExport.present,
                       namedComponents |-> q[3],
                       unnamedComponents |-> q[4]]]
     : q \in Spellings(o.namedComponents) \X Spellings(o.unnamedComponents)
             \X Spellings(o.defaultExport.namedComponents)
             \X Spellings(o.defaultExport.unnamedComponents)}

\* the four lists create builds from a configuration
ListsOf(o) ==
  Config(ConfigList(o.namedComponents, "function-declaration"),
         ConfigList(o.unnamedComponents, "function-expression"),
         ConfigList(o.defaultExport.namedComponents, "function-declaration"),
         ConfigList(o.defaultExport.unnamedComponents, "function-expression"))

\* create run on a respelled configuration builds the lists it builds now,
\* and every node then gets the same reports and the same fix
C26_CreateStep ==
  (pc = "create" /\ pc' = "idle") =>
    LET built == Config(namedConfig', unnamedConfig', defaultExportNamedConfig',
                        defaultExportUnnamedConfig')
    IN \A o \in Respellings(configuration) :
         /\ ListsOf(o) = built
         /\ \A n \in Nodes :
              validate(n, VisitorFunctionType(n.type), ListsOf(o))
                = validate(n, VisitorFunctionType(n.type), built)

\* C26: an option given as a string s and given as the array [s] lead to
\* the same outcome on every node, for each of the four options
C26_StringAsArray == [][C26_CreateStep]_vars

\* create is about to run on options spelled two as strings, two as
\* one-element arrays
C26_Witness ==
  /\ pc = "create"
  /\ configuration.namedComponents = StringValue("arrow-function")
  /\ configuration.unnamedComponents = ArrayValue(<<"arrow-function">>)
  /\ configuration.defaultExport.namedComponents = StringValue("function-expression")
  /\ configuration.defaultExport.unnamedComponents = ArrayValue(<<"function-expression">>)


\* the template the rule documents for a variant
TemplateOf(named, key) ==
  IF named
  THEN CASE key = "function-declaration" ->
              "function {name}{typeParams}({params}){returnType} {body}"
         [] key = "arrow-function" ->
              "var {name}{typeAnnotation} = {typeParams}({params}){returnType} => {body}"
         [] key = "function-expression" ->
              "var {name}{typeAnnotation} = function{typeParams}({params}){returnType} {body}"
         [] OTHER -> "undefined"
  ELSE CASE key = "function-expression" ->
              "function{typeParams}({params}){returnType} {body}"
         [] key = "arrow-function" ->
              "{typeParams}({params}){returnType} => {body}"
         [] OTHER -> "undefined"

\* C27: in every report the message key is the variant whose template
\* the fix uses, the template coming from the named templates for a
\* named node and from the unnamed templates for an unnamed one
C27_KeyMatchesTemplate ==
  (Visited /\ Reported) =>
    /\ ReportedOnce
    /\ reports[1].fix.present =>
         reports[1].fix.template
           = TemplateOf(node.type = "FunctionDeclaration"
                          \/ node.parentType = "VariableDeclarator",
                        reports[1].messageId)

\* an inline function expression reported with the key arrow-function
\* and fixed with the unnamed arrow template
C27_Witness ==
  /\ Visited
  /\ node.type = "FunctionExpression"
  /\ node.parentType = "CallExpression"
  /\ ReportedOnce
  /\ reports[1].messageId = "arrow-function"
  /\ reports[1].fix.present
  /\ reports[1].fix.template = "{typeParams}({params}){returnType} => {body}"


\* C28: for every accepted configuration, an empty array included, a
\* reported violation has one of the three message keys with a message
\* text, an offered fix has a template, and synthesizing the replacement
\* text does not fail
C28_DefinedKeyAndTemplate ==
  /\ (Visited /\ Reported) =>
       /\ reports[1].messageId
            \in {"function-declaration", "function-expression", "arrow-function"}
       /\ reports[1].message /= "undefined"
       /\ reports[1].fix.present => reports[1].fix.template /= "undefined"
  /\ pc /= "threw"


\* the four lists, by name
ListNames ==
  {"namedConfig", "unnamedConfig", "defaultExportNamedConfig",
   "defaultExportUnnamedConfig"}

\* the lists the schema allows under a name
ListsFor(name) ==
  IF name \in {"namedConfig", "defaultExportNamedConfig"}
  THEN NamedLists ELSE UnnamedLists

\* some node gets another outcome when only the list of that name changes
Influences(name) ==
  \E q \in NamedLists \X UnnamedLists \X NamedLists \X UnnamedLists :
    \E other \in ListsFor(name) :
      \E n \in Nodes :
        LET cfg == Config(q[1], q[2], q[3], q[4])
        IN validate(n, VisitorFunctionType(n.type), cfg)
             /= validate(n, VisitorFunctionType(n.type), [cfg EXCEPT ![name] = other])

\* C29: each of the four lists influences the result of some node under
\* some configuration, defaultExport.unnamedComponents included
C29_EachListMatters ==
  pc = "load" => \A name \in ListNames : Influences(name)

====
